---- MODULE Spec2Model ----
(***************************************************************************)
(* Church numerals (church.rs), overlay maps (map.rs) and Peano numerals   *)
(* (peano.rs).                                                             *)
(*                                                                         *)
(* A closure is modelled by its code tag and the values it captured:       *)
(*   <<"succ", n>> is the closure `move |f| { ... }` built by succ(n),     *)
(*   <<"succ_in", f, f_n>> is the closure `move |x| f(f_n(x))` it returns. *)
(* Calling a closure runs the body the source gives it.  Calls that take   *)
(* and return closures have no side effect and are evaluated by Call; a    *)
(* call of an Fn(T) -> T on a value of T is run step by step on a small    *)
(* machine (ev), because that is where to_usize's counter is borrowed and  *)
(* incremented.                                                            *)
(***************************************************************************)
EXTENDS Integers, Sequences, FiniteSets, TLC

\* ---------------------------------------------------------------- bounds
MaxNums == 3
MaxK == 2
MaxVal == 9
NElem == 2
MaxSize == 3
MaxRange == 30
MaxUps == 3
MaxP == 5

\* Default::default() of the element type handed to result_f
DefaultT == 0

Elem == 0 .. (NElem - 1)

VARIABLES nums, first, last, job, ev, map, ups, look, pin, pout

evalVars == <<job, ev>>

mapVars == <<map, ups, look>>

peanoVars == <<pin, pout>>

vars == <<nums, first, last, job, ev, map, ups, look, pin, pout>>

\* ------------------------------------------------------- church.rs: values
zero == <<"zero">>

one == <<"one">>

two == <<"two">>

three == <<"three">>

succ(n) == <<"succ", n>>

add(n, m) == <<"add", n, m>>

mult(n, m) == <<"mult", n, m>>

exp(n, m) == <<"exp", n, m>>

RECURSIVE from_usize_loop(_, _, _)
from_usize_loop(result, i, n) ==
  IF i >= n THEN result ELSE from_usize_loop(succ(result), i + 1, n)

\* the loop runs once more than asked: `for _ in 0..=n`
from_usize_inclusive(n) == from_usize_loop(zero, 0, n + 1)

from_usize(n) == from_usize_loop(zero, 0, n)

\* the counting closure of to_usize
count_f == <<"count">>

\* an arbitrary side-effect free Fn(T) -> T given by its table
tbl_f(t) == <<"tbl", t>>

IsChurch(v) == v[1] \in {"zero", "one", "two", "three", "succ", "add", "mult", "exp"}

IsLeaf(v) == v[1] \in {"count", "tbl"}

\* The calls, in order, that the body of a returned closure `move |x| ...`
\* makes on its argument: f(f_n(x)) calls f_n, then f.
Body(v) ==
  CASE v[1] = "id" -> <<>>
    [] v[1] = "app1" -> <<v[2]>>
    [] v[1] = "app2" -> <<v[2], v[2]>>
    [] v[1] = "app3" -> <<v[2], v[2], v[2]>>
    [] v[1] = "succ_in" -> <<v[3], v[2]>>
    [] v[1] = "add_in" -> <<v[2], v[3]>>
    [] v[1] = "mult_in" -> <<v[2]>>
    [] v[1] = "exp_in" -> <<v[2]>>

RECURSIVE Call(_, _)
RECURSIVE CallSeq(_, _)

zero_closure(f) == <<"id">>

one_closure(f) == <<"app1", f>>

two_closure(f) == <<"app2", f>>

\* f is applied twice only
three_closure_twice(f) == <<"app2", f>>

three_closure(f) == <<"app3", f>>

\* the additional application of f is lost
succ_closure_no_f(n, f) ==
  LET f_n == Call(n, f)
  IN <<"mult_in", f_n>>

succ_closure(n, f) ==
  LET f_n == Call(n, f)
  IN <<"succ_in", f, f_n>>

\* m is applied to f_n instead of f
add_closure_m_of_f_n(n, m, f) ==
  LET f_n == Call(n, f)
      f_m == Call(m, f_n)
  IN <<"add_in", f_n, f_m>>

add_closure(n, m, f) ==
  LET f_n == Call(n, f)
      f_m == Call(m, f)
  IN <<"add_in", f_n, f_m>>

\* m is applied to f instead of f_n
mult_closure_m_of_f(n, m, f) ==
  LET f_n == Call(n, f)
      f_m_n == Call(m, f)
  IN <<"mult_in", f_m_n>>

mult_closure(n, m, f) ==
  LET f_n == Call(n, f)
      f_m_n == Call(m, f_n)
  IN <<"mult_in", f_m_n>>

\* base and exponent are swapped: n(m)(f)
exp_closure_swapped(n, m, f) ==
  LET f_n_to_m == Call(Call(n, m), f)
  IN <<"exp_in", f_n_to_m>>

exp_closure(n, m, f) ==
  LET f_n_to_m == Call(Call(m, n), f)
  IN <<"exp_in", f_n_to_m>>

\* v(x) for a closure v whose argument x is itself a closure
Call(v, x) ==
  CASE v[1] = "zero" -> zero_closure(x)
    [] v[1] = "one" -> one_closure(x)
    [] v[1] = "two" -> two_closure(x)
    [] v[1] = "three" -> three_closure(x)
    [] v[1] = "succ" -> succ_closure(v[2], x)
    [] v[1] = "add" -> add_closure(v[2], v[3], x)
    [] v[1] = "mult" -> mult_closure(v[2], v[3], x)
    [] v[1] = "exp" -> exp_closure(v[2], v[3], x)
    [] ~IsChurch(v) /\ ~IsLeaf(v) -> CallSeq(Body(v), x)

CallSeq(fs, x) ==
  IF fs = <<>> THEN x ELSE CallSeq(Tail(fs), Call(Head(fs), x))

\* ------------------------------------- church.rs: running an Fn(T) -> T
\* flag is the RefCell's borrow state: 0 unused, -1 mutably borrowed.
Idle ==
  [pc |-> "idle", kind |-> "none", todo |-> <<>>, val |-> DefaultT,
   count |-> 0, flag |-> 0, result |-> -1]

\* the counter outlives the call and is not reset
NewCount_kept == IF last.nth = 0 THEN 0 ELSE last.v

\* let count = Rc::new(RefCell::new(0))
NewCount == 0

to_usize_start(n) ==
  LET f == count_f
      result_f == Call(n, f)
  IN [pc |-> "run", kind |-> "to_usize", todo |-> <<result_f>>, val |-> DefaultT,
      count |-> NewCount, flag |-> 0, result |-> -1]

\* n(f)(x) for a caller's own f
apply_start(n, f, x) ==
  [pc |-> "run", kind |-> "apply", todo |-> <<Call(n, f)>>, val |-> x,
   count |-> 0, flag |-> 0, result |-> -1]

\* c.borrow_mut(): BorrowMutError unless the cell is unused
f_borrow_mut(c) ==
  IF c.flag # 0
  THEN [c EXCEPT !.pc = "panic"]
  ELSE [c EXCEPT !.flag = -1, !.pc = "f_inc", !.todo = Tail(@)]

\* *count_mut += 1
f_inc(c) == [c EXCEPT !.count = @ + 1, !.pc = "f_ret"]

\* count_mut is not dropped when f returns
f_ret_keeps_guard(c) == [c EXCEPT !.pc = "run"]

\* x is returned and count_mut is dropped
f_ret(c) == [c EXCEPT !.flag = 0, !.pc = "run"]

tbl_call(c) == [c EXCEPT !.val = Head(c.todo)[2][c.val], !.todo = Tail(@)]

closure_call(c) == [c EXCEPT !.todo = Body(Head(c.todo)) \o Tail(c.todo)]

\* result_f has returned
returned(c) ==
  IF c.kind = "to_usize"
  THEN [c EXCEPT !.pc = "read"]
  ELSE [c EXCEPT !.pc = "done", !.result = c.val]

\* *count.borrow(): BorrowError while the cell is mutably borrowed
read_count(c) ==
  IF c.flag < 0
  THEN [c EXCEPT !.pc = "panic"]
  ELSE [c EXCEPT !.pc = "done", !.result = c.count]

Halted(c) == c.pc \in {"idle", "done", "panic"}

Step(c) ==
  CASE c.pc = "run" /\ c.todo = <<>> -> returned(c)
    [] c.pc = "run" /\ c.todo # <<>> /\ Head(c.todo)[1] = "count" -> f_borrow_mut(c)
    [] c.pc = "run" /\ c.todo # <<>> /\ Head(c.todo)[1] = "tbl" -> tbl_call(c)
    [] c.pc = "run" /\ c.todo # <<>> /\ ~IsLeaf(Head(c.todo)) -> closure_call(c)
    [] c.pc = "f_inc" -> f_inc(c)
    [] c.pc = "f_ret" -> f_ret(c)
    [] c.pc = "read" -> read_count(c)

\* Run(c) is c stepped until it halts.  StepN halves its step budget rather
\* than nesting one evaluation per step.
RECURSIVE StepN(_, _)
StepN(c, k) ==
  IF Halted(c) \/ k = 0 THEN c
  ELSE IF k = 1 THEN Step(c)
  ELSE StepN(StepN(c, k \div 2), k - (k \div 2))

RECURSIVE RunFrom(_, _)
RunFrom(c, k) == IF Halted(c) THEN c ELSE RunFrom(StepN(c, k), 2 * k)

Run(c) == RunFrom(c, 1)

to_usize_run(n) == Run(to_usize_start(n))

to_usize(n) == to_usize_run(n).result

\* ------------------------------------------------------------------ map.rs
\* <<"tm_empty", default_v>> is the closure `move |_| default_v.clone()`,
\* <<"tm_update", m, k, v>> the closure `move |k_1| if k_1 == k {..} else {..}`.
None == <<"None">>

Some(v) == <<"Some", v>>

tm_empty(default_v) == <<"tm_empty", default_v>>

tm_update(m, k, v) == <<"tm_update", m, k, v>>

pm_empty == tm_empty(None)

pm_update(m, k, v) == tm_update(m, k, Some(v))

RECURSIVE MapCall(_, _)

tm_empty_closure(default_v, k_1) == default_v

\* the comparison is inverted
tm_update_closure_ne(m, k, v, k_1) == IF k_1 # k THEN v ELSE MapCall(m, k_1)

tm_update_closure(m, k, v, k_1) == IF k_1 = k THEN v ELSE MapCall(m, k_1)

\* m(k_1) for a map closure m
MapCall(m, k_1) ==
  CASE m[1] = "tm_empty" -> tm_empty_closure(m[2], k_1)
    [] m[1] = "tm_update" -> tm_update_closure(m[2], m[3], m[4], k_1)

\* ---------------------------------------------------------------- peano.rs
O == <<"O">>

S(p) == <<"S", p>>

peano_pred(self) == IF self = O THEN O ELSE self[2]

peano_succ(self) == S(self)

RECURSIVE peano_from(_)
peano_from(value) == IF value = 0 THEN O ELSE S(peano_from(value - 1))

RECURSIVE peano_into(_)
peano_into(self) == IF self = O THEN 0 ELSE 1 + peano_into(self[2])

RECURSIVE peano_add(_, _)

\* the left operand is not incremented as the right one is decremented
peano_add_no_succ(self, rhs) ==
  CASE self = O /\ rhs = O -> O
    [] self = O /\ rhs # O -> rhs
    [] self # O /\ rhs = O -> self
    [] self # O /\ rhs # O -> peano_add(self, peano_pred(rhs))

peano_add(self, rhs) ==
  CASE self = O /\ rhs = O -> O
    [] self = O /\ rhs # O -> rhs
    [] self # O /\ rhs = O -> self
    [] self # O /\ rhs # O -> peano_add(peano_succ(self), peano_pred(rhs))

RECURSIVE peano_sub(_, _)
peano_sub(self, rhs) ==
  CASE self = O -> O
    [] self # O /\ rhs = O -> self
    [] self # O /\ rhs # O -> peano_sub(self[2], rhs[2])

RECURSIVE peano_mul(_, _)
peano_mul(self, rhs) ==
  IF self = O THEN O ELSE peano_add(peano_mul(self[2], rhs), rhs)

\* ------------------------------------------------ the number a term stands for
RECURSIVE Pow(_, _)
Pow(b, e) == IF e = 0 THEN 1 ELSE b * Pow(b, e - 1)

RECURSIVE Val(_)
Val(t) ==
  CASE t[1] = "zero" -> 0
    [] t[1] = "one" -> 1
    [] t[1] = "two" -> 2
    [] t[1] = "three" -> 3
    [] t[1] = "succ" -> Val(t[2]) + 1
    [] t[1] = "add" -> Val(t[2]) + Val(t[3])
    [] t[1] = "mult" -> Val(t[2]) * Val(t[3])
    [] t[1] = "exp" -> Pow(Val(t[2]), Val(t[3]))

RECURSIVE Iter(_, _, _)
Iter(t, k, x) == IF k = 0 THEN x ELSE Iter(t, k - 1, t[x])

\* ----------------------------------------------- a program using church.rs
\* nums are the numerals the program holds (shared handles to immutable
\* closures); ty is the element type a numeral was instantiated at: "T", or
\* "Fn" for Rc<dyn Fn(T) -> T>.  first is the program's first to_usize call
\* (numeral and value returned), last its latest one; nth is 1 while the
\* latest call is also the first and 2 afterwards.
Types == {"T", "Fn"}

Num(ty, t) == [ty |-> ty, t |-> t]

NoCall == [t |-> <<"none">>, v |-> -1, nth |-> 0]

Hold(ty, t) ==
  /\ Cardinality(nums) < MaxNums
  /\ Val(t) <= MaxVal
  /\ Num(ty, t) \notin nums
  /\ nums' = nums \cup {Num(ty, t)}
  /\ UNCHANGED <<first, last, evalVars, mapVars, peanoVars>>

ZeroOp == \E ty \in Types : Hold(ty, zero)

OneOp == \E ty \in Types : Hold(ty, one)

TwoOp == \E ty \in Types : Hold(ty, two)

ThreeOp == \E ty \in Types : Hold(ty, three)

FromUsizeOp == \E ty \in Types, k \in 0 .. MaxK : Hold(ty, from_usize(k))

SuccOp == \E n \in nums : Hold(n.ty, succ(n.t))

AddOp == \E n, m \in nums : n.ty = m.ty /\ Hold(n.ty, add(n.t, m.t))

MultOp == \E n, m \in nums : n.ty = m.ty /\ Hold(n.ty, mult(n.t, m.t))

ExpOp == \E n, m \in nums : n.ty = "T" /\ m.ty = "Fn" /\ Hold("T", exp(n.t, m.t))

\* to_usize needs T: Default, which Rc<dyn Fn(T) -> T> is not
ToUsizeOp ==
  \E n \in nums :
    /\ n.ty = "T"
    /\ LET call == [t |-> n.t, v |-> to_usize(n.t), nth |-> IF first = NoCall THEN 1 ELSE 2]
       IN /\ last' = call
          /\ first' = IF first = NoCall THEN call ELSE first
    /\ UNCHANGED <<nums, evalVars, mapVars, peanoVars>>

NoJob == [kind |-> "none", n |-> zero, f |-> [x \in Elem |-> x], x |-> DefaultT]

NoLook == [q |-> "", r |-> None, at |-> -1]

NoOut == [op |-> "none", r |-> O, n |-> 0]

NoChurch == nums = {} /\ first = NoCall /\ last = NoCall

NoEval == job = NoJob /\ ev = Idle

NoMap == map = [kind |-> "partial", d |-> FALSE, m |-> pm_empty] /\ ups = <<>> /\ look = NoLook

NoPeano == pin = [a |-> 0, b |-> 0, pa |-> O, pb |-> O] /\ pout = NoOut

Init == NoChurch /\ NoEval /\ NoMap /\ NoPeano

Next ==
  \/ ZeroOp
  \/ OneOp
  \/ TwoOp
  \/ ThreeOp
  \/ FromUsizeOp
  \/ SuccOp
  \/ AddOp
  \/ MultOp
  \/ ExpOp
  \/ ToUsizeOp

Spec == Init /\ [][Next]_vars

\* ---------------------------------------------------- properties under Spec
\* Every state with a call on record is reached for every held numeral of
\* element type T, so a property of the latest call is a property of every
\* numeral the program can build within the bounds.
TNums == {n \in nums : n.ty = "T"}

RoundTripRange == \A k \in 0 .. MaxRange : to_usize(from_usize(k)) = k

\* C1: from_usize followed by to_usize is the identity: a to_usize call on
\* from_usize(k) returned k, for every k in 0..MaxK; and to_usize(from_usize(k))
\* is k for every k in 0..MaxRange (evaluated once, in the initial state).
RoundTrip ==
  /\ \A k \in 0 .. MaxK : last.t = from_usize(k) => last.v = k
  /\ nums = {} => RoundTripRange

RoundTripWitness ==
  /\ MaxK >= 2
  /\ Num("T", from_usize(MaxK)) \in nums
  /\ last.t = from_usize(MaxK)
  /\ last.v = MaxK
  /\ first.t = from_usize(0)
  /\ first.v = 0

\* C3: a to_usize call on a numeral built by add(n, m) returned the sum of
\* what n and m decode to, whatever built n and m, and add(m, n) decodes to
\* the same; add(n, zero()) decodes to what the call on n returned.
AddDecodesToSum ==
  /\ last.t[1] = "add" =>
       /\ last.v = to_usize(last.t[2]) + to_usize(last.t[3])
       /\ last.v = to_usize(add(last.t[3], last.t[2]))
  /\ last.nth = 1 => to_usize(add(last.t, zero)) = last.v

AddWitness ==
  /\ last.t[1] = "add"
  /\ last.t[2][1] \in {"add", "mult"}
  /\ last.t[2] # last.t[3]
  /\ Val(last.t[2]) >= 2
  /\ Val(last.t[3]) >= 1
  /\ last.v = Val(last.t[2]) + Val(last.t[3])

\* C4: a to_usize call on a numeral built by mult(n, m) returned the product
\* of what n and m decode to; mult(n, one()) decodes to what the call on n
\* returned, mult(n, zero()) and mult(zero(), n) decode to 0; a call on
\* mult(n, add(a, b)) returned what add(mult(n, a), mult(n, b)) decodes to.
MultDecodesToProduct ==
  /\ last.t[1] = "mult" =>
       last.v = to_usize(last.t[2]) * to_usize(last.t[3])
  /\ last.nth = 1 =>
       /\ to_usize(mult(last.t, one)) = last.v
       /\ to_usize(mult(last.t, zero)) = 0
       /\ to_usize(mult(zero, last.t)) = 0
  /\ last.t[1] = "mult" /\ last.t[3][1] = "add" =>
       last.v = to_usize(add(mult(last.t[2], last.t[3][2]),
                             mult(last.t[2], last.t[3][3])))

MultWitness ==
  /\ last.t[1] = "mult"
  /\ last.t[3][1] = "add"
  /\ Val(last.t[2]) >= 2
  /\ Val(last.t[3][2]) >= 1
  /\ Val(last.t[3][3]) >= 1
  /\ last.v = Val(last.t[2]) * (Val(last.t[3][2]) + Val(last.t[3][3]))

Exp_2_3 == to_usize(exp(two, three)) = 8

Exp_3_5 == to_usize(exp(from_usize(3), from_usize(5))) = 243

\* C5: a to_usize call on a numeral built by exp(n, m), m instantiated at
\* Rc<dyn Fn(T) -> T>, returned N^M for the numbers N, M that n and m stand
\* for, with M = 0 giving 1 (also for N = 0) and N = 0, M > 0 giving 0;
\* exp(two, three) decodes to 8 and exp(from_usize(3), from_usize(5)) to 243
\* (evaluated once, in the initial state).
ExpDecodesToPower ==
  /\ last.t[1] = "exp" =>
       /\ last.v = Pow(to_usize(last.t[2]), Val(last.t[3]))
       /\ Val(last.t[3]) = 0 => last.v = 1
       /\ Val(last.t[2]) = 0 /\ Val(last.t[3]) > 0 => last.v = 0
  /\ nums = {} => Exp_2_3 /\ Exp_3_5

ExpWitness ==
  /\ last.t = exp(two, three)
  /\ last.v = 8
  /\ Num("Fn", three) \in nums

ExpZeroBaseWitness ==
  /\ last.t[1] = "exp"
  /\ Val(last.t[2]) = 0
  /\ Val(last.t[3]) > 0
  /\ last.v = 0

\* C6: a to_usize call on a numeral built by succ(n) returned one more than n
\* decodes to, whatever built n; succ(n) decodes to one more than the call on
\* n returned; calls on the literals zero, one, two, three returned 0, 1, 2, 3,
\* and each literal decodes like succ of the one before it.
SuccAddsOne ==
  /\ last.t[1] = "succ" => last.v = to_usize(last.t[2]) + 1
  /\ last.nth = 1 => to_usize(succ(last.t)) = last.v + 1
  /\ last.t = zero => last.v = 0
  /\ last.t = one => last.v = 1 /\ to_usize(succ(zero)) = 1
  /\ last.t = two => last.v = 2 /\ to_usize(succ(one)) = 2
  /\ last.t = three => last.v = 3 /\ to_usize(succ(two)) = 3

SuccWitness ==
  /\ last.t[1] = "succ"
  /\ last.t[2][1] \in {"add", "mult", "exp"}
  /\ last.v = Val(last.t[2]) + 1
  /\ last.v >= 3

\* C7: use does not alter a numeral: the numeral of the program's first
\* to_usize call is still held, whatever was built and decoded since; a later
\* call on it returned what the first call returned; and every call returned
\* the number its numeral stands for, so no count is carried over from one
\* call to the next.
NumeralsUnaltered ==
  first.nth # 0 =>
    /\ Num("T", first.t) \in nums
    /\ last.t = first.t => last.v = first.v
    /\ first.v = Val(first.t)
    /\ last.v = Val(last.t)

UnalteredWitness ==
  /\ last.nth = 2
  /\ last.t = first.t
  /\ last.v >= 2
  /\ \E e \in TNums : e.t[1] \in {"succ", "add", "mult", "exp"} /\ e.t[2] = first.t

\* ------------------------------------------- one evaluation, step by step
\* job is the evaluation asked for: to_usize(n), or n(f)(x) for an f given by
\* its table; ev is the evaluation's state.
RECURSIVE TermsOfSize(_)
TermsOfSize(s) ==
  IF s = 1
  THEN {zero, one, two, three}
  ELSE {succ(t) : t \in TermsOfSize(s - 1)}
       \cup UNION {{add(a, b) : a \in TermsOfSize(i), b \in TermsOfSize(s - 1 - i)} : i \in 1 .. (s - 2)}
       \cup UNION {{mult(a, b) : a \in TermsOfSize(i), b \in TermsOfSize(s - 1 - i)} : i \in 1 .. (s - 2)}
       \cup UNION {{exp(a, b) : a \in TermsOfSize(i), b \in TermsOfSize(s - 1 - i)} : i \in 1 .. (s - 2)}

Numerals == {t \in UNION {TermsOfSize(s) : s \in 1 .. MaxSize} : Val(t) <= MaxVal}

Jobs ==
  {[kind |-> "to_usize", n |-> t, f |-> [x \in Elem |-> x], x |-> DefaultT] : t \in Numerals}
  \cup {[kind |-> "apply", n |-> t, f |-> g, x |-> y] :
          t \in Numerals, g \in [Elem -> Elem], y \in Elem}

EvToUsize ==
  /\ ev.pc = "idle"
  /\ job.kind = "to_usize"
  /\ ev' = to_usize_start(job.n)
  /\ UNCHANGED <<nums, first, last, job, mapVars, peanoVars>>

EvApply ==
  /\ ev.pc = "idle"
  /\ job.kind = "apply"
  /\ ev' = apply_start(job.n, tbl_f(job.f), job.x)
  /\ UNCHANGED <<nums, first, last, job, mapVars, peanoVars>>

EvClosureCall ==
  /\ ev.pc = "run"
  /\ ev.todo # <<>>
  /\ ~IsLeaf(Head(ev.todo))
  /\ ev' = closure_call(ev)
  /\ UNCHANGED <<nums, first, last, job, mapVars, peanoVars>>

EvTblCall ==
  /\ ev.pc = "run"
  /\ ev.todo # <<>>
  /\ Head(ev.todo)[1] = "tbl"
  /\ ev' = tbl_call(ev)
  /\ UNCHANGED <<nums, first, last, job, mapVars, peanoVars>>

EvBorrowMut ==
  /\ ev.pc = "run"
  /\ ev.todo # <<>>
  /\ Head(ev.todo)[1] = "count"
  /\ ev' = f_borrow_mut(ev)
  /\ UNCHANGED <<nums, first, last, job, mapVars, peanoVars>>

EvInc ==
  /\ ev.pc = "f_inc"
  /\ ev' = f_inc(ev)
  /\ UNCHANGED <<nums, first, last, job, mapVars, peanoVars>>

EvRet ==
  /\ ev.pc = "f_ret"
  /\ ev' = f_ret(ev)
  /\ UNCHANGED <<nums, first, last, job, mapVars, peanoVars>>

EvReturned ==
  /\ ev.pc = "run"
  /\ ev.todo = <<>>
  /\ ev' = returned(ev)
  /\ UNCHANGED <<nums, first, last, job, mapVars, peanoVars>>

EvReadCount ==
  /\ ev.pc = "read"
  /\ ev' = read_count(ev)
  /\ UNCHANGED <<nums, first, last, job, mapVars, peanoVars>>

InitEval == NoChurch /\ job \in Jobs /\ ev = Idle /\ NoMap /\ NoPeano

NextEval ==
  \/ EvToUsize
  \/ EvApply
  \/ EvClosureCall
  \/ EvTblCall
  \/ EvBorrowMut
  \/ EvInc
  \/ EvRet
  \/ EvReturned
  \/ EvReadCount

SpecEval == InitEval /\ [][NextEval]_vars

\* C2: n(f)(x) is f applied N times to x, N the number n stands for, for every
\* numeral n of the constructors and operators, every f over Elem and every x;
\* so x itself for N = 0, and x for the identity f; under to_usize's counting
\* f the value handed in comes back unchanged after N counted calls.
AppliesNTimes ==
  ev.pc = "done" =>
    /\ job.kind = "apply" => ev.result = Iter(job.f, Val(job.n), job.x)
    /\ job.kind = "apply" /\ Val(job.n) = 0 => ev.result = job.x
    /\ job.kind = "apply" /\ (\A y \in Elem : job.f[y] = y) => ev.result = job.x
    /\ job.kind = "to_usize" => ev.val = DefaultT /\ ev.count = Val(job.n)

AppliesWitness ==
  /\ ev.pc = "done"
  /\ job.kind = "apply"
  /\ job.n = exp(three, two)
  /\ job.f[0] = 1
  /\ job.f[1] = 0
  /\ job.x = 0
  /\ ev.result = 1

\* C10: during to_usize the counter is borrowed by one invocation of f at a
\* time and by nothing else: it is mutably borrowed exactly while an invocation
\* of f is between its borrow_mut and its return, it is unused when the next
\* invocation starts and when the count is read, the read comes after every
\* invocation, and no borrow ever fails.
BorrowsNeverConflict ==
  /\ ev.pc # "panic"
  /\ ev.flag \in {0, -1}
  /\ ev.flag = -1 <=> ev.pc \in {"f_inc", "f_ret"}
  /\ ev.pc \in {"read", "done"} => ev.todo = <<>>
  /\ ev.pc = "done" /\ job.kind = "to_usize" => ev.result = ev.count

BorrowsWitness ==
  /\ job.kind = "to_usize"
  /\ job.n[1] = "exp"
  /\ ev.pc = "f_ret"
  /\ ev.flag = -1
  /\ ev.count = 4
  /\ ev.todo # <<>>

\* ------------------------------------------------- a program using map.rs
\* map is the map the program holds, total with default d or partial; ups are
\* the updates made so far, in order; look is the latest lookup: the key, the
\* value returned and how many updates had been made.  Keys and values are
\* those of the module's tests.
Keys == {"foo", "bar", "box"}

PKeys == {"Church", "Turing", "Other"}

TmUpdate ==
  /\ map.kind = "total"
  /\ Len(ups) < MaxUps
  /\ \E k \in Keys, v \in BOOLEAN :
       /\ map' = [map EXCEPT !.m = tm_update(@, k, v)]
       /\ ups' = Append(ups, [k |-> k, v |-> v])
  /\ UNCHANGED <<nums, first, last, evalVars, look, peanoVars>>

PmUpdate ==
  /\ map.kind = "partial"
  /\ Len(ups) < MaxUps
  /\ \E k \in PKeys, v \in BOOLEAN :
       /\ map' = [map EXCEPT !.m = pm_update(@, k, v)]
       /\ ups' = Append(ups, [k |-> k, v |-> v])
  /\ UNCHANGED <<nums, first, last, evalVars, look, peanoVars>>

MapLookup ==
  /\ \E q \in (IF map.kind = "total" THEN Keys ELSE PKeys) :
       look' = [q |-> q, r |-> MapCall(map.m, q), at |-> Len(ups)]
  /\ UNCHANGED <<nums, first, last, evalVars, map, ups, peanoVars>>

InitMap ==
  /\ NoChurch
  /\ NoEval
  /\ \/ \E d \in BOOLEAN : map = [kind |-> "total", d |-> d, m |-> tm_empty(d)]
     \/ map = [kind |-> "partial", d |-> FALSE, m |-> pm_empty]
  /\ ups = <<>>
  /\ look = NoLook
  /\ NoPeano

NextMap ==
  \/ TmUpdate
  \/ PmUpdate
  \/ MapLookup

SpecMap == InitMap /\ [][NextMap]_vars

\* the index of the latest of the first n updates that used key q, or 0
LatestUpdate(n, q) ==
  LET I == {i \in 1 .. n : ups[i].k = q}
  IN IF I = {} THEN 0 ELSE CHOOSE i \in I : \A j \in I : j <= i

\* C8: a lookup of key q returns the value of the most recent update that used
\* q, and the default where no update used q; on a partial map it returns
\* Some(v) of the most recent update for q and None where there is none.
LookupLatest ==
  look.at >= 0 =>
    LET i == LatestUpdate(look.at, look.q)
    IN /\ map.kind = "total" => look.r = (IF i = 0 THEN map.d ELSE ups[i].v)
       /\ map.kind = "partial" => look.r = (IF i = 0 THEN None ELSE Some(ups[i].v))

LookupWitness ==
  /\ map.kind = "total"
  /\ look.at = 3
  /\ ups[1].k = look.q
  /\ ups[2].k # look.q
  /\ ups[3].k = look.q
  /\ ups[3].v # ups[1].v
  /\ ups[3].v # ups[2].v
  /\ look.r = ups[3].v

LookupPartialWitness ==
  /\ map.kind = "partial"
  /\ look.at = 2
  /\ ups[1].k = look.q
  /\ ups[2].k = look.q
  /\ ups[1].v # ups[2].v
  /\ look.r = Some(ups[2].v)

\* ----------------------------------------------- a program using peano.rs
\* pin are two numbers and the Peano values From<usize> made of them; pout is
\* the latest operation: its Peano result r and r converted back by Into<usize>.
PeanoAdd ==
  /\ LET r == peano_add(pin.pa, pin.pb)
     IN pout' = [op |-> "add", r |-> r, n |-> peano_into(r)]
  /\ UNCHANGED <<nums, first, last, evalVars, mapVars, pin>>

PeanoSub ==
  /\ LET r == peano_sub(pin.pa, pin.pb)
     IN pout' = [op |-> "sub", r |-> r, n |-> peano_into(r)]
  /\ UNCHANGED <<nums, first, last, evalVars, mapVars, pin>>

PeanoMul ==
  /\ LET r == peano_mul(pin.pa, pin.pb)
     IN pout' = [op |-> "mul", r |-> r, n |-> peano_into(r)]
  /\ UNCHANGED <<nums, first, last, evalVars, mapVars, pin>>

PeanoInto ==
  /\ pout' = [op |-> "into", r |-> pin.pa, n |-> peano_into(pin.pa)]
  /\ UNCHANGED <<nums, first, last, evalVars, mapVars, pin>>

InitPeano ==
  /\ NoChurch
  /\ NoEval
  /\ NoMap
  /\ pin \in {[a |-> a, b |-> b, pa |-> peano_from(a), pb |-> peano_from(b)] :
                a \in 0 .. MaxP, b \in 0 .. MaxP}
  /\ pout = NoOut

NextPeano ==
  \/ PeanoAdd
  \/ PeanoSub
  \/ PeanoMul
  \/ PeanoInto

SpecPeano == InitPeano /\ [][NextPeano]_vars

\* C9: on Peano values made by From<usize> of a and b, + gives a + b, * gives
\* a * b and - gives a - b where a >= b and Peano::O where a < b, as Peano
\* values and converted back to usize; a converted to Peano and back is a.
\* (Every operator is evaluated to its end on every pair, so it terminates.)
PeanoArithmetic ==
  /\ pout.op = "add" => pout.n = pin.a + pin.b /\ pout.r = peano_from(pin.a + pin.b)
  /\ pout.op = "mul" => pout.n = pin.a * pin.b /\ pout.r = peano_from(pin.a * pin.b)
  /\ pout.op = "sub" /\ pin.a >= pin.b =>
       pout.n = pin.a - pin.b /\ pout.r = peano_from(pin.a - pin.b)
  /\ pout.op = "sub" /\ pin.a < pin.b => pout.n = 0 /\ pout.r = O
  /\ pout.op = "into" => pout.n = pin.a

PeanoWitness ==
  /\ pout.op = "sub"
  /\ pin.a >= 1
  /\ pin.a < pin.b
  /\ pout.r = O

PeanoMulWitness ==
  /\ pout.op = "mul"
  /\ pin.a = 3
  /\ pin.b = 4
  /\ pout.n = 12

====
